---- MODULE Spec2Model ----
(***************************************************************************)
(* Model of src/main.py: get_mp3_metadata(url) and the reporting part of   *)
(* main().  One run of the tool is one behaviour: probe (HEAD), download   *)
(* (GET, streamed into a temporary file), primary parse, optional generic  *)
(* fallback parse, cleanup of the temporary file, return, report.          *)
(*                                                                         *)
(* Strings that the code takes apart (the URL, the content-length header,  *)
(* the file extension) are sequences of one-character strings.  Strings    *)
(* that the code only builds (the report fields, the messages) are TLA+    *)
(* strings built with \o and ToString.                                     *)
(* info.length is a float number of seconds in the code; the model carries *)
(* it in hundredths of a second.                                           *)
(***************************************************************************)
EXTENDS Integers, Sequences, FiniteSets, TLC

VARIABLES
    url,            \* the argument of get_mp3_metadata, from the path on
    pc,             \* position of the run
    headHeader,     \* content-length header of the probe response
    headStatus,     \* HTTP status of the probe response, 0: no response
    getStatus,      \* HTTP status of the download response, 0: no response
    total_size,     \* local total_size
    file_extension, \* local file_extension
    tempCreated,    \* the temporary file was created in this run
    tempExists,     \* the temporary file is on the filesystem
    temp_path_set,  \* local temp_path is bound
    chunksLeft,     \* chunks the response body still has to yield
    written,        \* non-empty chunks written to the temporary file
    primaryParser,  \* the parser the primary attempt invoked
    primaryCalls,   \* number of primary parser invocations
    fallbackCalls,  \* number of fallback File(temp_path) invocations
    primary,        \* how the primary attempt ended
    fallback,       \* how the fallback attempt ended
    audio,          \* local audio
    pending,        \* value of the return statement waiting for finally
    result,         \* value get_mp3_metadata returned
    printed         \* block main printed

vars == <<url, pc, headHeader, headStatus, getStatus, total_size,
          file_extension, tempCreated, tempExists, temp_path_set, chunksLeft,
          written, primaryParser, primaryCalls, fallbackCalls, primary, fallback,
          audio, pending, result, printed>>

----------------------------------------------------------------------------
(* Bounds of the model *)

MaxChunks == 2

MaxChannels == 3

(* Program constants *)

BytesPerMB == 1048576

BitsPerKbit == 1000

SecondsPerMinute == 60

----------------------------------------------------------------------------
(* Character helpers *)

UpperChars == <<"A","B","C","D","E","F","G","H","I","J","K","L","M",
                "N","O","P","Q","R","S","T","U","V","W","X","Y","Z">>

LowerChars == <<"a","b","c","d","e","f","g","h","i","j","k","l","m",
                "n","o","p","q","r","s","t","u","v","w","x","y","z">>

DigitChars == <<"0","1","2","3","4","5","6","7","8","9">>

\* str.lower() on one character
LowerChar(c) ==
    IF \E i \in 1..Len(UpperChars) : UpperChars[i] = c
    THEN LowerChars[CHOOSE i \in 1..Len(UpperChars) : UpperChars[i] = c]
    ELSE c

\* str.lower()
Lower(s) == [i \in 1..Len(s) |-> LowerChar(s[i])]

\* str.find(chars): index of the first character of s in the set, Len(s)+1 if none
FirstIdx(s, set) ==
    IF \E i \in 1..Len(s) : s[i] \in set
    THEN CHOOSE i \in 1..Len(s) : s[i] \in set /\ \A j \in 1..(i-1) : s[j] \notin set
    ELSE Len(s) + 1

\* str.rfind(c): index of the last c in s, 0 if none
LastIdx(s, c) ==
    IF \E i \in 1..Len(s) : s[i] = c
    THEN CHOOSE i \in 1..Len(s) : s[i] = c /\ \A j \in (i+1)..Len(s) : s[j] # c
    ELSE 0

----------------------------------------------------------------------------
(* urlparse(url).path and Path(...).suffix.lower(), line 29-30 *)

\* urlparse(url).path: the fragment is cut at the first '#', the query at the
\* first '?', the params at the first ';' of the last path segment
UrlPath(u) ==
    LET noFrag  == SubSeq(u, 1, FirstIdx(u, {"#"}) - 1)
        noQuery == SubSeq(noFrag, 1, FirstIdx(noFrag, {"?"}) - 1)
        slash   == LastIdx(noQuery, "/")
        tail    == SubSeq(noQuery, slash + 1, Len(noQuery))
    IN  SubSeq(noQuery, 1, slash + FirstIdx(tail, {";"}) - 1)

RECURSIVE StripTrailingSlashes(_)
\* pathlib drops the trailing separators of a path
StripTrailingSlashes(p) ==
    IF Len(p) > 1 /\ p[Len(p)] = "/"
    THEN StripTrailingSlashes(SubSeq(p, 1, Len(p) - 1))
    ELSE p

\* Path(p).name: the last component of the path
PathName(p) ==
    LET q == StripTrailingSlashes(p)
    IN  SubSeq(q, LastIdx(q, "/") + 1, Len(q))

\* Path(p).suffix: from the last dot of the name, unless that dot is the
\* first or the last character of the name
PathSuffix(p) ==
    LET name == PathName(p)
        i    == LastIdx(name, ".")
    IN  IF 1 < i /\ i < Len(name) THEN SubSeq(name, i, Len(name)) ELSE <<>>

\* the extension taken without .lower()
FileExtensionCaseSensitive(u) == PathSuffix(UrlPath(u))

\* file_extension = Path(parsed_url.path).suffix.lower()
FileExtension(u) == Lower(PathSuffix(UrlPath(u)))

----------------------------------------------------------------------------
(* int(head_response.headers.get("content-length", 0)), line 21 *)

DigitVal(c) == (CHOOSE i \in 1..Len(DigitChars) : DigitChars[i] = c) - 1

IsDigit(c) == \E i \in 1..Len(DigitChars) : DigitChars[i] = c

RECURSIVE DigitsValue(_)
DigitsValue(s) ==
    IF s = <<>> THEN 0
    ELSE DigitsValue(SubSeq(s, 1, Len(s) - 1)) * 10 + DigitVal(s[Len(s)])

RECURSIVE StripSpaces(_)
\* str.strip() as int() applies it
StripSpaces(s) ==
    IF s # <<>> /\ s[1] = " " THEN StripSpaces(Tail(s))
    ELSE IF s # <<>> /\ s[Len(s)] = " " THEN StripSpaces(SubSeq(s, 1, Len(s) - 1))
    ELSE s

\* int(text): surrounding whitespace, an optional sign, then decimal digits;
\* anything else raises ValueError
ParseInt(text) ==
    LET t      == StripSpaces(text)
        signed == t # <<>> /\ t[1] \in {"+", "-"}
        digits == IF signed THEN Tail(t) ELSE t
    IN  IF digits # <<>> /\ \A i \in 1..Len(digits) : IsDigit(digits[i])
        THEN [ok |-> TRUE,
              val |-> IF signed /\ t[1] = "-" THEN 0 - DigitsValue(digits)
                      ELSE DigitsValue(digits)]
        ELSE [ok |-> FALSE, val |-> 0]

\* headers.get("content-length", 0) followed by int(): the default 0 is
\* already an int
ContentLength(header) ==
    IF header.present THEN ParseInt(header.value) ELSE [ok |-> TRUE, val |-> 0]

----------------------------------------------------------------------------
(* Formatting *)

\* f"{n:02d}" for 0 <= n
TwoDigits(n) == IF n < 10 THEN "0" \o ToString(n) ELSE ToString(n)

\* f"{total_size / (1024 * 1024):.2f} MB": total_size / 2^20 is exact in a
\* double, and .2f rounds the exact value to the nearest hundredth, ties to even
FormatMB(total) ==
    LET a == IF total < 0 THEN 0 - total ELSE total
        q == (a * 100) \div BytesPerMB
        r == (a * 100) % BytesPerMB
        h == IF 2 * r > BytesPerMB \/ (2 * r = BytesPerMB /\ q % 2 = 1)
             THEN q + 1 ELSE q
    IN  (IF total < 0 THEN "-" ELSE "") \o ToString(h \div 100) \o "."
        \o TwoDigits(h % 100) \o " MB"

\* minutes, seconds = divmod(info.length, 60);
\* f"{int(minutes)}:{int(seconds):02d}", length in hundredths of a second
FormatDuration(length) ==
    LET minutes == length \div (SecondsPerMinute * 100)
        seconds == (length % (SecondsPerMinute * 100)) \div 100
    IN  ToString(minutes) \o ":" \o TwoDigits(seconds)

----------------------------------------------------------------------------
(* Structural info and its normalisation *)

\* an object without attributes
NoAttrs == [x \in {} |-> 0]

\* hasattr(obj, name)
HasAttr(obj, name) == name \in DOMAIN obj

ReportKeys == {"file_size", "duration", "channels", "sample_rate", "bitrate"}

\* lines 59-100: the report of the primary path
PrimaryReport(info, total) ==
    LET duration == IF HasAttr(info, "length")
                    THEN FormatDuration(info["length"]) ELSE "Unknown"
        channel_text ==
            IF HasAttr(info, "channels")
            THEN IF info["channels"] = 1 THEN "Mono"
                 ELSE IF info["channels"] = 2 THEN "Stereo"
                 ELSE ToString(info["channels"]) \o " channels"
            ELSE "Unknown" \o " channels"
        sample_rate == IF HasAttr(info, "sample_rate")
                       THEN ToString(info["sample_rate"]) \o " Hz" ELSE "Unknown"
        bitrate == IF HasAttr(info, "bitrate")
                   THEN info["bitrate"] \div BitsPerKbit ELSE 0
    IN  [file_size   |-> FormatMB(total),
         duration    |-> duration,
         channels    |-> channel_text,
         sample_rate |-> sample_rate,
         bitrate     |-> IF bitrate # 0 THEN ToString(bitrate) \o " kbps"
                         ELSE "Unknown"]

\* the fallback report with the bitrate left in bits per second
FallbackReportRawBitrate(info, total) ==
    [PrimaryReport(info, total) EXCEPT
        !.bitrate = IF HasAttr(info, "bitrate") /\ info["bitrate"] # 0
                    THEN ToString(info["bitrate"]) \o " kbps" ELSE "Unknown"]

\* lines 110-141: the report of the fallback path
FallbackReport(info, total) ==
    LET hasLength == HasAttr(info, "length")
        duration == IF hasLength THEN FormatDuration(info["length"]) ELSE "Unknown"
        channels == HasAttr(info, "channels")
        channel_text ==
            IF channels /\ info["channels"] = 1 THEN "Mono"
            ELSE IF channels /\ info["channels"] = 2 THEN "Stereo"
            ELSE (IF channels THEN ToString(info["channels"]) ELSE "Unknown")
                 \o " channels"
        sample_rate == IF HasAttr(info, "sample_rate")
                       THEN ToString(info["sample_rate"]) \o " Hz" ELSE "Unknown"
        bitrate == IF HasAttr(info, "bitrate")
                   THEN info["bitrate"] \div BitsPerKbit ELSE 0
    IN  [file_size   |-> FormatMB(total),
         duration    |-> duration,
         channels    |-> channel_text,
         sample_rate |-> sample_rate,
         bitrate     |-> IF bitrate # 0 THEN ToString(bitrate) \o " kbps"
                         ELSE "Unknown"]

\* the degraded report with the plain "Unknown" duration
DegradedReportPlainDuration(total) ==
    [file_size   |-> FormatMB(total),
     duration    |-> "Unknown",
     channels    |-> "Unknown",
     sample_rate |-> "Unknown",
     bitrate     |-> "Unknown"]

\* lines 148-154: the degraded report of the header-not-found handler
DegradedReport(total) ==
    [file_size   |-> FormatMB(total),
     duration    |-> "Unknown (headers not found)",
     channels    |-> "Unknown",
     sample_rate |-> "Unknown",
     bitrate     |-> "Unknown"]

\* lines 143-145
CouldNotExtract ==
    [error |-> "Could not extract metadata. The file may have non-standard formatting or may not be a valid audio file."]

\* line 157
ExtractError(exc) == [error |-> "Error extracting metadata: " \o exc]

\* line 164
RetrieveError(exc) == [error |-> "Error retrieving metadata: " \o exc]

----------------------------------------------------------------------------
(* Inputs of a run *)

\* http://host/a.mp3
Url_mp3 == <<"/","a",".","m","p","3">>

\* http://host/a.MP3
Url_MP3 == <<"/","a",".","M","P","3">>

\* http://host/b.m4a
Url_m4a == <<"/","b",".","m","4","a">>

\* http://host/b.Mp4
Url_mp4 == <<"/","b",".","M","p","4">>

\* http://host/c.flac#t.mp3
Url_flac == <<"/","c",".","f","l","a","c","#","t",".","m","p","3">>

\* http://host/a.tar.ogg
Url_ogg == <<"/","a",".","t","a","r",".","o","g","g">>

\* http://host/e.wav;p=.mp3
Url_wav == <<"/","e",".","w","a","v",";","p","=",".","m","p","3">>

\* http://host/f.txt
Url_txt == <<"/","f",".","t","x","t">>

\* http://host/g
Url_none == <<"/","g">>

\* http://host/.mp3
Url_hidden == <<"/",".","m","p","3">>

\* http://host/a.mp3?x=.wav
Url_query == <<"/","a",".","m","p","3","?","x","=",".","w","a","v">>

\* http://host/a.mp3/b
Url_dir == <<"/","a",".","m","p","3","/","b">>

Urls == {Url_mp3, Url_MP3, Url_m4a, Url_mp4, Url_flac, Url_ogg, Url_wav, Url_txt, Url_none, Url_hidden, Url_query, Url_dir}

Ext_mp3 == <<".","m","p","3">>

Ext_m4a == <<".","m","4","a">>

Ext_mp4 == <<".","m","p","4">>

Ext_flac == <<".","f","l","a","c">>

Ext_ogg == <<".","o","g","g">>

Ext_wav == <<".","w","a","v">>

Hdr_5MB == [present |-> TRUE, value |-> <<"5","2","4","2","8","8","0">>]

Hdr_eighth == [present |-> TRUE, value |-> <<"1","3","1","0","7","2">>]

Hdr_padded == [present |-> TRUE, value |-> <<" ","4","2"," ">>]

Hdr_text == [present |-> TRUE, value |-> <<"a","b","c">>]

Hdr_empty == [present |-> TRUE, value |-> <<>>]

\* the response carries no content-length header
Hdr_absent == [present |-> FALSE, value |-> <<>>]

Headers == {Hdr_absent, Hdr_5MB, Hdr_eighth, Hdr_padded, Hdr_text, Hdr_empty}

\* final status of a response: success, or not found
Statuses == {200, 404}

IsSuccess(status) == 200 <= status /\ status < 300

\* what requests.head and requests.get raise
RequestExceptions == {"ConnectionError", "Timeout"}

\* what creating, writing and removing the temporary file raise
FileExceptions == {"OSError"}

\* what iter_content raises while the body is streamed
StreamExceptions == {"ChunkedEncodingError"}

\* what a parser raises besides the header-not-found condition
ParserExceptions == {"MutagenError"}

\* the classes of an exception, as isinstance sees them
Mro(exc) ==
    IF exc = "HeaderNotFoundError"
    THEN {"HeaderNotFoundError", "MutagenError", "Exception", "BaseException"}
    ELSE {exc, "Exception", "BaseException"}

\* a handler that matches the exact class only
CatchesExactClass(cls, exc) == cls = exc

\* except cls: catches exc
Catches(cls, exc) == cls \in Mro(exc)

Lengths == {12570, 360000}

Channels == 1..MaxChannels

SampleRates == {44100}

Bitrates == {0, 999, 1000, 192500}

Attr(name, values) == {NoAttrs} \cup {name :> v : v \in values}

\* the info objects a parser yields: every attribute is independently optional
Infos ==
    {l @@ c @@ r @@ b : l \in Attr("length", Lengths),
                        c \in Attr("channels", Channels),
                        r \in Attr("sample_rate", SampleRates),
                        b \in Attr("bitrate", Bitrates)}

\* what a parser returns: None, an object without an info attribute, an
\* object whose info is None, or an object with an info
\* (the parsers are library code: every parser may give every outcome)
Audios ==
    {[kind |-> k, info |-> NoAttrs] : k \in {"None", "NoInfoAttr", "InfoNone"}}
    \cup {[kind |-> "Info", info |-> i] : i \in Infos}

\* an info test that also asks for at least one attribute
HasInfoWithFields(a) == a.kind = "Info" /\ DOMAIN a.info # {}

\* line 57 and 105-109:
\* audio is not None and hasattr(audio, "info") and audio.info is not None
HasInfo(a) == a.kind # "None" /\ a.kind # "NoInfoAttr" /\ a.kind # "InfoNone"

\* lines 44-55: the parser the extension selects
Dispatch(ext) ==
    IF ext = Ext_mp3 THEN "MP3"
    ELSE IF ext \in {Ext_m4a, Ext_mp4} THEN "MP4"
    ELSE IF ext = Ext_flac THEN "FLAC"
    ELSE IF ext = Ext_ogg THEN "OggVorbis"
    ELSE IF ext = Ext_wav THEN "WAVE"
    ELSE "File"

NoRecord == [unset |-> TRUE]

NoAudio == [kind |-> "None", info |-> NoAttrs]

NotRun == [ended |-> "not run", exc |-> "", audio |-> NoAudio]

----------------------------------------------------------------------------
(* The run *)

Init ==
    /\ url \in Urls
    /\ pc = "head"
    /\ headHeader = Hdr_absent
    /\ headStatus = 0
    /\ getStatus = 0
    /\ total_size = 0
    /\ file_extension = <<>>
    /\ tempCreated = FALSE
    /\ tempExists = FALSE
    /\ temp_path_set = FALSE
    /\ chunksLeft = 0
    /\ written = 0
    /\ primaryParser = "none"
    /\ primaryCalls = 0
    /\ fallbackCalls = 0
    /\ primary = NotRun
    /\ fallback = NotRun
    /\ audio = NoAudio
    /\ pending = NoRecord
    /\ result = NoRecord
    /\ printed = "nothing"

\* lines 163-164: an exception reaches the outer handler
OuterExcept(exc) ==
    IF Catches("Exception", exc)
    THEN /\ result' = RetrieveError(exc)
         /\ pc' = "returned"
    ELSE /\ result' = result
         /\ pc' = "escaped"

\* lines 146-157: an exception of the parse reaches the inner handlers
InnerExcept(exc) ==
    IF Catches("HeaderNotFoundError", exc)
    THEN /\ pending' = DegradedReport(total_size)
         /\ pc' = "finally"
    ELSE IF Catches("Exception", exc)
    THEN /\ pending' = ExtractError(exc)
         /\ pc' = "finally"
    ELSE /\ pending' = pending
         /\ pc' = "escaped"

\* lines 20-23: the probe request and the total size
Probe ==
    /\ pc = "head"
    /\ \/ \E exc \in RequestExceptions :
            /\ OuterExcept(exc)
            /\ UNCHANGED <<headHeader, headStatus, total_size>>
       \/ \E st \in Statuses, h \in Headers :
            /\ headStatus' = st
            /\ headHeader' = h
            /\ IF ContentLength(h).ok
               THEN /\ total_size' = ContentLength(h).val
                    /\ pc' = "get"
                    /\ result' = result
               ELSE /\ total_size' = total_size
                    /\ OuterExcept("ValueError")
    /\ UNCHANGED <<fallback, url, getStatus, file_extension, tempCreated, tempExists,
                   temp_path_set, chunksLeft, written, primaryParser,
                   primaryCalls, fallbackCalls, primary, audio, pending, printed>>

\* lines 24-30: the download request and the file extension
Download ==
    /\ pc = "get"
    /\ \/ \E exc \in RequestExceptions :
            /\ OuterExcept(exc)
            /\ UNCHANGED <<getStatus, file_extension, chunksLeft>>
       \/ \E st \in Statuses, n \in 0..MaxChunks :
            /\ getStatus' = st
            /\ chunksLeft' = n
            /\ file_extension' = FileExtension(url)
            /\ pc' = "mktemp"
            /\ result' = result
    /\ UNCHANGED <<fallback, url, headHeader, headStatus, total_size, tempCreated,
                   tempExists, temp_path_set, written, primaryParser,
                   primaryCalls, fallbackCalls, primary, audio, pending, printed>>

\* lines 33-35: tempfile.NamedTemporaryFile(delete=False, suffix=...)
CreateTemp ==
    /\ pc = "mktemp"
    /\ \/ \E exc \in FileExceptions :
            /\ OuterExcept(exc)
            /\ UNCHANGED <<tempCreated, tempExists>>
       \/ /\ tempCreated' = TRUE
          /\ tempExists' = TRUE
          /\ pc' = "stream"
          /\ result' = result
    /\ UNCHANGED <<fallback, url, headHeader, headStatus, getStatus, total_size,
                   file_extension, temp_path_set, chunksLeft, written,
                   primaryParser, primaryCalls, fallbackCalls, primary, audio,
                   pending, printed>>

\* lines 36-38: one iteration of the download loop; the with block closes the
\* file when an exception leaves it, and delete=False keeps it on disk
StreamChunk ==
    /\ pc = "stream"
    /\ chunksLeft > 0
    /\ \/ \E exc \in StreamExceptions \cup FileExceptions :
            /\ OuterExcept(exc)
            /\ UNCHANGED <<chunksLeft, written>>
       \/ \E empty \in BOOLEAN :
            /\ chunksLeft' = chunksLeft - 1
            /\ written' = IF empty THEN written ELSE written + 1
            /\ pc' = pc
            /\ result' = result
    /\ UNCHANGED <<fallback, url, headHeader, headStatus, getStatus, total_size,
                   file_extension, tempCreated, tempExists, temp_path_set,
                   primaryParser, primaryCalls, fallbackCalls, primary, audio,
                   pending, printed>>

\* line 39: the body is exhausted, temp_path is bound and the file is closed
FinishDownload ==
    /\ pc = "stream"
    /\ chunksLeft = 0
    /\ temp_path_set' = TRUE
    /\ pc' = "parse"
    /\ UNCHANGED <<fallback, url, headHeader, headStatus, getStatus, total_size,
                   file_extension, tempCreated, tempExists, chunksLeft, written,
                   primaryParser, primaryCalls, fallbackCalls, primary, audio,
                   pending, result, printed>>

\* lines 43-55: the primary attempt with the parser the extension selects
PrimaryParse ==
    /\ pc = "parse"
    /\ primaryParser' = Dispatch(file_extension)
    /\ primaryCalls' = primaryCalls + 1
    /\ \/ \E a \in Audios :
            /\ audio' = a
            /\ primary' = [ended |-> "returned", exc |-> "", audio |-> a]
            /\ pc' = "check"
            /\ pending' = pending
       \/ \E exc \in {"HeaderNotFoundError"} \cup ParserExceptions :
            /\ audio' = audio
            /\ primary' = [ended |-> "raised", exc |-> exc, audio |-> NoAudio]
            /\ InnerExcept(exc)
    /\ UNCHANGED <<fallback, url, headHeader, headStatus, getStatus, total_size,
                   file_extension, tempCreated, tempExists, temp_path_set,
                   chunksLeft, written, fallbackCalls, result, printed>>

\* lines 57-100: the primary attempt yielded an info, which is normalised
PrimaryResult ==
    /\ pc = "check"
    /\ HasInfo(audio)
    /\ pending' = PrimaryReport(audio.info, total_size)
    /\ pc' = "finally"
    /\ UNCHANGED <<fallback, url, headHeader, headStatus, getStatus, total_size,
                   file_extension, tempCreated, tempExists, temp_path_set,
                   chunksLeft, written, primaryParser, primaryCalls,
                   fallbackCalls, primary, audio, result, printed>>

\* lines 101-145: the primary attempt yielded no info, the generic parser is
\* tried on the same file
FallbackParse ==
    /\ pc = "check"
    /\ ~HasInfo(audio)
    /\ fallbackCalls' = fallbackCalls + 1
    /\ \/ \E a \in Audios :
            /\ audio' = a
            /\ fallback' = [ended |-> "returned", exc |-> "", audio |-> a]
            /\ pending' = IF HasInfo(a) THEN FallbackReport(a.info, total_size)
                          ELSE CouldNotExtract
            /\ pc' = "finally"
       \/ \E exc \in {"HeaderNotFoundError"} \cup ParserExceptions :
            /\ audio' = audio
            /\ fallback' = [ended |-> "raised", exc |-> exc, audio |-> NoAudio]
            /\ InnerExcept(exc)
    /\ UNCHANGED <<url, headHeader, headStatus, getStatus, total_size,
                   file_extension, tempCreated, tempExists, temp_path_set,
                   chunksLeft, written, primaryParser, primaryCalls, primary,
                   result, printed>>

\* lines 158-161: the finally block; an exception of os.unlink replaces the
\* pending return value and reaches the outer handler
Cleanup ==
    /\ pc = "finally"
    /\ IF tempExists
       THEN \/ /\ tempExists' = FALSE
               /\ result' = pending
               /\ pc' = "returned"
            \/ \E exc \in FileExceptions :
               /\ tempExists' = tempExists
               /\ OuterExcept(exc)
       ELSE /\ tempExists' = tempExists
            /\ result' = pending
            /\ pc' = "returned"
    /\ UNCHANGED <<fallback, url, headHeader, headStatus, getStatus, total_size,
                   file_extension, tempCreated, temp_path_set, chunksLeft,
                   written, primaryParser, primaryCalls, fallbackCalls, primary,
                   audio, pending, printed>>

\* main, lines 176-189: the block printed for the returned record
Report ==
    /\ pc = "returned"
    /\ printed' = IF "error" \in DOMAIN result THEN "Error" ELSE "Audio Metadata"
    /\ pc' = "done"
    /\ UNCHANGED <<fallback, url, headHeader, headStatus, getStatus, total_size,
                   file_extension, tempCreated, tempExists, temp_path_set,
                   chunksLeft, written, primaryParser, primaryCalls,
                   fallbackCalls, primary, audio, pending, result>>

Next ==
    \/ Probe
    \/ Download
    \/ CreateTemp
    \/ StreamChunk
    \/ FinishDownload
    \/ PrimaryParse
    \/ PrimaryResult
    \/ FallbackParse
    \/ Cleanup
    \/ Report

Spec == Init /\ [][Next]_vars

----------------------------------------------------------------------------
(* Shorthands of the properties *)

Returned == pc \in {"returned", "done"}

IsErrorRecord(r) == DOMAIN r = {"error"}

IsMetadataRecord(r) == DOMAIN r = ReportKeys

TypeOK ==
    /\ pc \in {"head", "get", "mktemp", "stream", "parse", "check", "finally",
               "returned", "done", "escaped"}
    /\ primaryCalls \in 0..1

\* the primary attempt ended with the header-not-found condition
PrimaryHeaderNotFound ==
    primary.ended = "raised" /\ primary.exc = "HeaderNotFoundError"

\* the primary attempt returned and there is no info object to read
PrimaryWithoutInfo ==
    primary.ended = "returned" /\ primary.audio.kind \in {"None", "NoInfoAttr", "InfoNone"}

\* the removal of the temporary file raised: the run reached the finally
\* block, has returned, and the file is still there
CleanupRaised == Returned /\ temp_path_set /\ tempExists

\* the probe total of each header of the model, in MB with two decimals
ProbeSizeText ==
    CASE headHeader = Hdr_5MB -> "5.00 MB"
      [] headHeader = Hdr_eighth -> "0.12 MB"
      [] OTHER -> "0.00 MB"

\* the returned record is a report normalised from the info of audio
ReportFromInfo == Returned /\ IsMetadataRecord(result) /\ HasInfo(audio)

----------------------------------------------------------------------------
(* C1 *)

\* C1: in every run that created the temporary file, the file is absent from
\* the filesystem when get_mp3_metadata has returned, on every exit path,
\* failures raised inside the download loop included.
C1_TempFileAbsentOnReturn == (Returned /\ tempCreated) => ~tempExists

----------------------------------------------------------------------------
(* C2 *)

\* C2: no exception escapes get_mp3_metadata, whatever the probe, the
\* download, the parsers and the cleanup do; the returned record is either an
\* error record with the only key 'error' or a metadata record with exactly
\* the five report keys and no 'error' key, and main prints the matching block.
C2_NoEscapeTwoShapes ==
    /\ pc # "escaped"
    /\ Returned =>
         \/ DOMAIN result = {"error"}
         \/ /\ DOMAIN result = {"file_size", "duration", "channels",
                                "sample_rate", "bitrate"}
            /\ "error" \notin DOMAIN result
    /\ pc = "done" =>
         printed = IF DOMAIN result = {"error"} THEN "Error" ELSE "Audio Metadata"

\* the cleanup raised after a report was ready, and an error record came back
C2_Witness ==
    /\ pc = "done"
    /\ CleanupRaised
    /\ IsMetadataRecord(pending)
    /\ result = [error |-> "Error retrieving metadata: OSError"]
    /\ printed = "Error"

----------------------------------------------------------------------------
(* C3 *)

----------------------------------------------------------------------------
(* C4 *)

----------------------------------------------------------------------------
(* C5 *)

\* C5: if the probe response or the download response has a non-success
\* status, no parser is ever invoked and the run returns an error record.
C5_NonSuccessStatusIsFetchError ==
    (\/ headStatus # 0 /\ ~(200 <= headStatus /\ headStatus < 300)
     \/ getStatus # 0 /\ ~(200 <= getStatus /\ getStatus < 300)) =>
        /\ primaryCalls = 0
        /\ fallbackCalls = 0
        /\ Returned => DOMAIN result = {"error"}

----------------------------------------------------------------------------
(* C6 *)

\* C6: if the probe response has no content-length header or one that is not
\* an integer, the total size is 0, the run goes on to the download, the
\* header alone gives no error record, and a report has file_size "0.00 MB".
C6_BadContentLengthIsZero ==
    (headStatus # 0 /\ headHeader \in {Hdr_absent, Hdr_text, Hdr_empty}) =>
        /\ total_size = 0
        /\ pc # "head"
        /\ ~(Returned /\ getStatus = 0
                /\ result = [error |-> "Error retrieving metadata: ValueError"])
        /\ (Returned /\ IsMetadataRecord(result)) => result.file_size = "0.00 MB"

----------------------------------------------------------------------------
(* C7 *)

\* C7: in a report normalised from an info, on the primary and on the
\* fallback path, an absent bitrate and a bitrate of 0 give "Unknown", and
\* every positive bitrate b gives "<floor(b/1000)> kbps".
C7_BitrateNormalization ==
    ReportFromInfo =>
        IF "bitrate" \notin DOMAIN audio.info \/ audio.info["bitrate"] = 0
        THEN result.bitrate = "Unknown"
        ELSE result.bitrate = ToString(audio.info["bitrate"] \div 1000) \o " kbps"

----------------------------------------------------------------------------
(* C8 *)

\* C8: in a report normalised from an info, on the primary and on the
\* fallback path, 1 channel gives "Mono", 2 give "Stereo", any other
\* positive n gives "<n> channels", and an info without channels gives
\* exactly "Unknown".
C8_ChannelNormalization ==
    ReportFromInfo =>
        IF "channels" \notin DOMAIN audio.info THEN result.channels = "Unknown"
        ELSE IF audio.info["channels"] = 1 THEN result.channels = "Mono"
        ELSE IF audio.info["channels"] = 2 THEN result.channels = "Stereo"
        ELSE result.channels = ToString(audio.info["channels"]) \o " channels"

----------------------------------------------------------------------------
(* C9 *)

\* the parser the dispatch table of the claim gives for each URL of the model
C9_DocumentedParser ==
    CASE url \in {Url_mp3, Url_MP3, Url_query} -> "MP3"
      [] url \in {Url_m4a, Url_mp4} -> "MP4"
      [] url = Url_flac -> "FLAC"
      [] url = Url_ogg -> "OggVorbis"
      [] url = Url_wav -> "WAVE"
      [] OTHER -> "File"

\* C9: the primary parse invokes the parser that the lowercased extension of
\* the URL path selects (.mp3 MP3, .m4a and .mp4 MP4, .flac FLAC, .ogg
\* OggVorbis, .wav WAVE, anything else or nothing the generic File), a run
\* invokes at most one primary parser, and exactly one once the download has
\* completed and the parse has started.
C9_FormatDispatch ==
    /\ primaryCalls \in {0, 1}
    /\ primaryCalls = 0 => primaryParser = "none"
    /\ primaryCalls = 1 => primaryParser = C9_DocumentedParser
    /\ pc \in {"check", "finally"} => primaryCalls = 1
    /\ (Returned /\ temp_path_set) => primaryCalls = 1

\* an upper-case .MP3 URL went to the MP3 parser
C9_Witness ==
    /\ Returned
    /\ url = Url_MP3
    /\ primaryCalls = 1
    /\ primaryParser = "MP3"

----------------------------------------------------------------------------
(* C10 *)

\* C10 as stated: the fallback parse is attempted exactly once when, and only
\* when, the primary parse returns without exception and yields no usable
\* structural info, meaning a null info or an info object lacking the
\* expected fields; otherwise it is not attempted.
C10_FallbackIffNoUsableInfo ==
    Returned /\ temp_path_set =>
        fallbackCalls =
            IF /\ primary.ended = "returned"
               /\ \/ primary.audio.kind \in {"None", "NoInfoAttr", "InfoNone"}
                  \/ /\ primary.audio.kind = "Info"
                     /\ DOMAIN primary.audio.info = {}
            THEN 1 ELSE 0

\* C10 amended: the fallback parse is attempted exactly once when, and only
\* when, the primary parse returns without exception and yields no info
\* object (a null result, a result without info attribute, or a null info);
\* an info object lacking the expected fields is normalised as it is and
\* does not trigger the fallback; the fallback is never attempted after the
\* primary parse raises, and never more than once.
C10_FallbackIffNoInfoObject ==
    /\ fallbackCalls \in {0, 1}
    /\ primary.ended # "returned" => fallbackCalls = 0
    /\ pc \in {"finally", "returned", "done"} /\ temp_path_set =>
         fallbackCalls = IF PrimaryWithoutInfo THEN 1 ELSE 0

\* the primary parser returned an object whose info is None and the fallback
\* ran once
C10_Witness ==
    /\ Returned
    /\ primary.ended = "returned"
    /\ primary.audio.kind = "InfoNone"
    /\ fallbackCalls = 1
    /\ fallback.ended # "not run"

====
